---------------------------- MODULE Spec2Model ----------------------------
(***************************************************************************)
(* A model of src/cjsminus.js (ClassicJSMinus): the function identity      *)
(* wrapper and its call-stack trace, the private layer connector and       *)
(* disconnector, the protected accessors, the definition normalizer and    *)
(* the class factory.                                                      *)
(*                                                                         *)
(* Reading of the source.  Every function is modelled statement by         *)
(* statement: guards, order of effects, what is assigned and what is never *)
(* assigned (no `return`, no `finally`, maps nothing populates, the empty  *)
(* validateAccess).  Names the file uses without declaring them denote the *)
(* module-level object their use implies: `stack` is the call-stack trace, *)
(* `PVT_DATA` the key of the hidden layer's bookkeeping record, `TRIGGER`  *)
(* the private access specifier.  Values are strings; "undefined" is the   *)
(* JavaScript undefined.  The static API (init, isPlaceHolder,             *)
(* getInitValue, PrivateAccessSpecifier) and generatePrototypes are        *)
(* modelled the same way.                                                  *)
(***************************************************************************)
EXTENDS Integers, Sequences, FiniteSets, TLC

\* ---------------------------------------------------------------- bounds
MaxWrappers == 1    \* wrappers created by makePvtName while classes are built
MaxMade     == 2    \* wrappers created by makePvtName called on its own
MaxFrames   == 1    \* wrapper invocations in progress at once
MaxTrace    == 1    \* entries on the call-stack trace
MaxClasses  == 2    \* constructors built by ClassicM
MaxInst     == 1    \* instances built by a constructor
MaxMarkers  == 2    \* placeholders registered by init
MaxCalls    == 2    \* runs of one placeholder's initializer

VARIABLES
    stack,       \* the call-stack trace: wrapper identities, innermost last
    frames,      \* wrapper invocations in progress: <<[w, pre]>>
    wrappers,    \* owners: the wrappers made so far, <<[name, owner]>>
    classes,     \* the constructors ClassicM has built: <<[base, mode, ...]>>
    classDefs,   \* classDefs: constructor -> definition
    connections, \* connections: instance -> private data per class id
    inst,        \* the instances built so far
    held,        \* per instance: connects that returned and await disconnect
    initFns,     \* initFns: placeholder -> initializer, in order of creation
    initCalls,   \* per placeholder: how often its initializer has been run
    TRIGGER,     \* the private access specifier; nothing gives it a value
                 \* before the first accepted assignment
    last         \* the operation that ended last, its inputs and its outcome

vars == <<stack, frames, wrappers, classes, classDefs, connections, inst,
          held, initFns, initCalls, TRIGGER, last>>

Undefined == "undefined"
NoOp == [op |-> "none"]

\* ------------------------------------------------------ definition values
\* The region keys, as ClassicM.STATIC .. ClassicM.PUBLIC name them.
STATIC    == "static"
PRIVATE   == "private"
PROTECTED == "protected"
PUBLIC    == "public"
ABSTRACT  == "abstract"
FINAL     == "final"

\* A JavaScript value as the normalizer sees it: its kind, and for an object
\* its own keys (string and symbol keys alike), which of them hold functions,
\* and, for the object given as STATIC, the value under each of its keys.
Absent    == [t |-> "absent"]
Null      == [t |-> "null"]
Zero      == [t |-> "zero"]
EmptyStr  == [t |-> "empty"]
Str       == [t |-> "str"]
Fn        == [t |-> "fn"]
\* A function that is not a ClassicM class (Object among them), a constructor
\* ClassicM built, and a raw definition object.
ClassRef(k) == [t |-> "class", k |-> k]
Def(d)      == [t |-> "def", d |-> d]
Obj(keys, fns) == [t |-> "obj", keys |-> keys, fns |-> fns]
StaticObj(sub, extra) ==
    [t |-> "sobj", keys |-> {k \in DOMAIN sub : sub[k] # Absent} \cup extra,
     sub |-> sub]

isObj(v) == v.t \in {"obj", "sobj"}
\* `item` in a condition: null, 0 and "" are falsy.
truthy(v) == v.t \in {"obj", "sobj", "str", "fn", "def", "class"}
\* typeof(item): null is an "object" too.
typeOf(v) ==
    CASE v.t \in {"obj", "sobj", "null"} -> "object"
      [] v.t = "zero"  -> "number"
      [] v.t \in {"empty", "str"} -> "string"
      [] v.t \in {"fn", "class"} -> "function"
      [] v.t = "def"   -> "object"
      [] OTHER         -> "undefined"

\* getAllKeys(obj): Object.getOwnPropertyNames(obj) and the own symbols.
\* null and undefined cannot be converted to an object (TypeError); a number
\* has no own keys; a string has "length" and one key per character.
getAllKeysThrows(v) == v.t \in {"null", "absent"}
getAllKeys(v) ==
    CASE isObj(v)       -> v.keys
      [] v.t = "empty"  -> {"length"}
      [] v.t = "str"    -> {"length", "0"}
      [] OTHER          -> {}

\* ------------------------------------------------------ fixupData
\* A raw class definition: [className, inheritMode, regs], regs giving the
\* value under each of the four region keys (Absent: no own property).
Regions       == <<STATIC, PRIVATE, PROTECTED, PUBLIC>>
StaticRegions == <<PRIVATE, PROTECTED, PUBLIC>>
NoError == "none"

\* checkForDuplicates(obj) on the running set `duplicates`: the error it ends
\* with, if any (getAllKeys throwing included).
checkForDuplicates(duplicates, item) ==
    IF getAllKeysThrows(item) THEN "TypeError: cannot convert to object"
    ELSE IF getAllKeys(item) \cap duplicates # {}
         THEN "SyntaxError: duplicate key name"
         ELSE NoError

\* One turn of the first a.forEach (lines 227-239) for `entry`.
fixupEntry(st, data, entry) ==
    LET item == data.regs[entry] IN
    IF st.err # NoError THEN st
    ELSE IF item = Absent THEN [st EXCEPT !.regs[entry] = Absent]
    ELSE IF truthy(item) /\ typeOf(item) # "object"
         THEN [st EXCEPT !.err = "TypeError: data." \o entry]
    ELSE IF checkForDuplicates(st.dups, item) # NoError
         THEN [st EXCEPT !.err = checkForDuplicates(st.dups, item)]
    ELSE [st EXCEPT !.dups = @ \cup getAllKeys(item), !.regs[entry] = item]

\* One turn of the second a.forEach (lines 244-256) for `entry`: the region
\* found inside STATIC is stored under retval[entry]; a region STATIC lacks
\* is added to retval[STATIC] (the caller's STATIC object) as undefined.
fixupStaticEntry(st, data, entry) ==
    LET sobj == data.regs[STATIC]
        has  == truthy(sobj) /\ isObj(sobj) /\ entry \in sobj.keys
        item == IF sobj.t = "sobj" /\ entry \in DOMAIN sobj.sub
                THEN sobj.sub[entry] ELSE Absent
    IN
    IF st.err # NoError THEN st
    ELSE IF ~has
         THEN [st EXCEPT !.regs[STATIC].keys = @ \cup {entry}]
    ELSE IF truthy(item) /\ typeOf(item) # "object"
         THEN [st EXCEPT !.err = "TypeError: data[ClassicM.STATIC]." \o entry]
    ELSE IF checkForDuplicates(st.dups, item) # NoError
         THEN [st EXCEPT !.err = checkForDuplicates(st.dups, item)]
    ELSE [st EXCEPT !.dups = @ \cup getAllKeys(item), !.regs[entry] = item]

RECURSIVE fixupFold(_, _, _, _)
fixupFold(st, data, entries, static) ==
    IF entries = <<>> THEN st
    ELSE fixupFold(IF static THEN fixupStaticEntry(st, data, Head(entries))
                             ELSE fixupEntry(st, data, Head(entries)),
                   data, Tail(entries), static)

\* fixupData(data): the normalized definition, or the error thrown.
fixupData(data) ==
    LET st0 == [err  |-> NoError, dups |-> {},
                regs |-> [e \in {STATIC, PRIVATE, PROTECTED, PUBLIC} |->
                            IF e = STATIC THEN Obj({}, {}) ELSE Absent],
                className   |-> IF data.className = Undefined
                                THEN "ClassBase" ELSE data.className,
                inheritMode |-> IF data.inheritMode \in {ABSTRACT, FINAL, Undefined}
                                THEN data.inheritMode ELSE Undefined]
        st1 == fixupFold(st0, data, Regions, FALSE)
        \* a.delete(STATIC); duplicates.clear(); if (retval[STATIC]) ...
        st2 == IF st1.err = NoError /\ truthy(st1.regs[STATIC])
               THEN fixupFold([st1 EXCEPT !.dups = {}], data, StaticRegions, TRUE)
               ELSE st1
    IN [err |-> st2.err, regs |-> st2.regs,
        className |-> st2.className, inheritMode |-> st2.inheritMode]

\* -------------------------------------------------- function identity wrapper
\* The names makeFnName can return: in the source four random integers in
\* text form; here a small pool.
FnNames == {"_$1$_", "_$2$_"}
makeFnName == FnNames

unchangedTrace == UNCHANGED <<stack, frames, wrappers>>
unchangedMaps  == UNCHANGED <<classDefs, connections>>
unchangedApi   == UNCHANGED <<initFns, initCalls, TRIGGER>>

\* makePvtName(fn, owner) (lines 121-161): the wrapper gets the name
\* makeFnName returns, whatever names were handed out before, and is entered
\* into owners.
makePvtName(fn, owner) ==
    /\ Len(wrappers) < MaxMade
    /\ \E name \in makeFnName :
          /\ wrappers' = Append(wrappers, [name |-> name, owner |-> owner])
          /\ last' = [op |-> "makePvtName", fn |-> fn, name |-> name,
                      owner |-> owner, w |-> Len(wrappers) + 1]
    /\ UNCHANGED <<stack, frames, classes, classDefs, connections, inst, held>>
    /\ unchangedApi

\* The wrapper up to the call of fn: stack.push(<itself>), then fn.apply.
WrapperEnter(w) ==
    /\ Len(frames) < MaxFrames
    /\ Len(stack) < MaxTrace
    /\ stack' = Append(stack, w)
    /\ frames' = Append(frames, [w |-> w, pre |-> stack])
    /\ last' = [op |-> "enter", w |-> w]
    /\ UNCHANGED <<wrappers, classes, classDefs, connections, inst, held>>
    /\ unchangedApi

\* stack.pop(): the last entry is removed, whichever it is.
pop(s) == IF s = <<>> THEN s ELSE SubSeq(s, 1, Len(s) - 1)

\* fn returned to the innermost wrapper: stack.pop(); return retval.
WrapperReturn ==
    /\ frames # <<>>
    /\ LET f == frames[Len(frames)] IN
          /\ stack' = pop(stack)
          /\ frames' = SubSeq(frames, 1, Len(frames) - 1)
          /\ last' = [op |-> "wrapper", exit |-> "return", w |-> f.w,
                      pre |-> f.pre, post |-> pop(stack)]
    /\ UNCHANGED <<wrappers, classes, classDefs, connections, inst, held>>
    /\ unchangedApi

\* fn threw in the innermost wrapper: the wrapper has no handler, the
\* exception leaves it at the call of fn and stack.pop() is not run.
WrapperThrow ==
    /\ frames # <<>>
    /\ LET f == frames[Len(frames)] IN
          /\ frames' = SubSeq(frames, 1, Len(frames) - 1)
          /\ last' = [op |-> "wrapper", exit |-> "throw", w |-> f.w,
                      pre |-> f.pre, post |-> stack]
    /\ UNCHANGED <<stack, wrappers, classes, classDefs, connections, inst, held>>
    /\ unchangedApi

\* ------------------------------------------------ layer connector
\* An instance: its class, the value of its ClassicM.CLASS property, the
\* hidden layer at the head of its delegation chain (NoLayer: the chain is
\* the original one) and its own properties keyed by class id.
NoLayer == [t |-> "none"]
Layer(count, slots) ==
    [t |-> "layer", count |-> count, prototype |-> "original", slots |-> slots]
PvtData == "private data"
hasLayer(o) == o.layer # NoLayer
jsTypeof(v) == IF v = Undefined THEN "undefined" ELSE "object"

\* obj[id]: an own property, else the layer's.
lookup(o, id) ==
    IF id \in DOMAIN o.own THEN o.own[id]
    ELSE IF hasLayer(o) /\ id \in DOMAIN o.layer.slots THEN o.layer.slots[id]
    ELSE Undefined

\* obj[id] = v outside strict mode: the layer is frozen, so a key it holds
\* cannot be shadowed and the assignment is dropped; any other key becomes
\* (or stays) an own property of the instance.
assign(o, id, v) ==
    IF id \in DOMAIN o.own THEN [o EXCEPT !.own[id] = v]
    ELSE IF hasLayer(o) /\ id \in DOMAIN o.layer.slots THEN o
    ELSE [o EXCEPT !.own = @ @@ (id :> v)]

\* validateAccess(obj, depth): the body is empty, the call yields undefined.
validateAccess(obj, depth) == FALSE

\* The guard with both negations lost.
connectDenied_negationsLost(i) ==
    validateAccess("this", 1) \/ i \in DOMAIN connections

\* The guard of connect (line 272).
connectDenied(i) == ~validateAccess("this", 1) \/ i \notin DOMAIN connections

Inaccessible == "TypeError: Inaccessible"
NoProperties == "TypeError: cannot read properties of undefined"
NotBound     == "ReferenceError: prototype is not defined"
NullId       == 0

\* connect without line 272-273 and with every instance registered.
connect_unguarded(i, o, id) ==
    IF ~hasLayer(o)
    THEN [err |-> NoError, o |-> [o EXCEPT !.layer = Layer(1, id :> PvtData)]]
    ELSE IF jsTypeof(lookup(o, id)) # "object"
    THEN [err |-> NoError,
          o |-> [assign(o, id, PvtData) EXCEPT !.layer.count = @ + 1]]
    ELSE [err |-> NoError, o |-> o]

\* connect(obj, id) on instance i in state o: the error thrown, if any, and
\* the instance afterwards.
connect(i, o, id) ==
    IF connectDenied(i) THEN [err |-> Inaccessible, o |-> o]
    ELSE IF i \notin DOMAIN connections
         \* instanceData is undefined and instanceData[id] is evaluated
         THEN [err |-> IF hasLayer(o) /\ jsTypeof(lookup(o, id)) = "object"
                       THEN NoError ELSE NoProperties,
               o |-> o]
    ELSE LET instanceData == connections[i]
             v == IF id \in DOMAIN instanceData THEN instanceData[id]
                  ELSE Undefined
         IN IF ~hasLayer(o)
            THEN [err |-> NoError, o |-> [o EXCEPT !.layer = Layer(1, id :> v)]]
            ELSE IF jsTypeof(lookup(o, id)) # "object"
            THEN [err |-> NoError,
                  o |-> [assign(o, id, v) EXCEPT !.layer.count = @ + 1]]
            ELSE [err |-> NoError, o |-> o]

\* disconnect(obj, id).  `prototype` is a local of connect; disconnect has no
\* binding for it, so both resets throw while their argument is evaluated
\* and the chain stays as it is.  NullId is a null or missing id.
disconnect(o, id) ==
    IF id = NullId THEN [err |-> NotBound, o |-> o]
    ELSE IF hasLayer(o)
    THEN LET o1 == [assign(o, id, Undefined) EXCEPT !.layer.count = @ - 1]
         IN IF o1.layer.count = 0 THEN [err |-> NotBound, o |-> o1]
            ELSE [err |-> NoError, o |-> o1]
    ELSE [err |-> NoError, o |-> o]

\* The bookkeeping record {count, prototype} the layer holds under PVT_DATA,
\* read at a class id: it has no such key.
pvtDataAt(o, classId) == Undefined

\* getProtectedValue (lines 323-329) on instance i in state o.
getProtectedValue(i, o, key) ==
    IF o.CLASS = Undefined
    THEN [err |-> NoProperties, res |-> Undefined, o |-> o]   \* line 324
    ELSE LET classId == o.cls
             c == connect(i, o, classId)
         IN IF c.err # NoError THEN [err |-> c.err, res |-> Undefined, o |-> c.o]
            ELSE IF pvtDataAt(c.o, classId) = Undefined       \* line 326
            THEN [err |-> NoProperties, res |-> Undefined, o |-> c.o]
            ELSE LET d == disconnect(c.o, classId)
                 IN [err |-> d.err, res |-> pvtDataAt(c.o, classId), o |-> d.o]

\* setProtectedValue (lines 333-339) on instance i in state o.
setProtectedValue(i, o, key, value) ==
    IF o.CLASS = Undefined
    THEN [err |-> NoProperties, res |-> Undefined, o |-> o]   \* line 334
    ELSE LET classId == o.cls
             c == connect(i, o, classId)
         IN IF c.err # NoError THEN [err |-> c.err, res |-> Undefined, o |-> c.o]
            ELSE IF pvtDataAt(c.o, classId) = Undefined       \* line 336
            THEN [err |-> NoProperties, res |-> Undefined, o |-> c.o]
            ELSE LET d == disconnect(c.o, classId)
                 IN [err |-> d.err, res |-> value, o |-> d.o]

\* The class whose privileged member is running: the owner of the innermost
\* wrapper in progress; 0 outside every wrapper.
callerClass ==
    IF frames = <<>> THEN 0 ELSE wrappers[frames[Len(frames)].w].owner

\* Class k is class c or descends from it.
RECURSIVE descendsFrom(_, _)
descendsFrom(k, c) ==
    IF k = 0 THEN FALSE
    ELSE k = c \/ descendsFrom(classes[k].base, c)

ClassIds == 1..Len(classes)
Keys     == {"x"}
Values   == {"v1", "v2"}
MaxHeld  == 1

Connect(i, id) ==
    /\ held[i] < MaxHeld
    /\ LET c == connect(i, inst[i], id) IN
          /\ inst' = [inst EXCEPT ![i] = c.o]
          /\ held' = [held EXCEPT ![i] = IF c.err = NoError THEN @ + 1 ELSE @]
          /\ last' = [op |-> "connect", obj |-> i, id |-> id, err |-> c.err,
                      caller |-> callerClass, pre |-> inst[i]]
    /\ UNCHANGED classes /\ unchangedTrace /\ unchangedMaps /\ unchangedApi

Disconnect(i, id) ==
    /\ LET d == disconnect(inst[i], id) IN
          /\ inst' = [inst EXCEPT ![i] = d.o]
          /\ held' = [held EXCEPT ![i] = IF @ > 0 THEN @ - 1 ELSE @]
          /\ last' = [op |-> "disconnect", obj |-> i, id |-> id, err |-> d.err,
                      pre |-> inst[i]]
    /\ UNCHANGED classes /\ unchangedTrace /\ unchangedMaps /\ unchangedApi

SetProtectedValue(i, key, value) ==
    /\ LET r == setProtectedValue(i, inst[i], key, value) IN
          /\ inst' = [inst EXCEPT ![i] = r.o]
          /\ last' = [op |-> "set", obj |-> i, key |-> key, value |-> value,
                      err |-> r.err, res |-> r.res, caller |-> callerClass]
    /\ UNCHANGED <<classes, held>> /\ unchangedTrace /\ unchangedMaps
    /\ unchangedApi

\* The getter; `wrote` is the value a setter call that ended just before it
\* was given for the same key on the same instance from the same context.
GetProtectedValue(i, key) ==
    /\ LET r == getProtectedValue(i, inst[i], key) IN
          /\ inst' = [inst EXCEPT ![i] = r.o]
          /\ last' = [op |-> "get", obj |-> i, key |-> key,
                      err |-> r.err, res |-> r.res, caller |-> callerClass,
                      wrote |-> IF last.op = "set" /\ last.obj = i
                                   /\ last.key = key
                                   /\ last.caller = callerClass
                                THEN last.value ELSE Undefined]
    /\ UNCHANGED <<classes, held>> /\ unchangedTrace /\ unchangedMaps
    /\ unchangedApi

\* ------------------------------------------------------ class factory
RawDef(className, inheritMode, static, private, protected, public) ==
    [className |-> className, inheritMode |-> inheritMode,
     regs |-> (STATIC :> static) @@ (PRIVATE :> private)
              @@ (PROTECTED :> protected) @@ (PUBLIC :> public)]
EmptyDef == RawDef(Undefined, Undefined, Absent, Absent, Absent, Absent)

\* The switch on arguments.length (lines 389-415): the error thrown, if any,
\* and base and data as the rest of the function sees them.  In the default
\* case `!typeof(base) === "function"` compares a boolean with a string and
\* is false for every base.
BaseObject == Fn
classicMArgs(nargs, base, data) ==
    CASE nargs = 0 -> [err |-> NoError, base |-> BaseObject, data |-> Def(EmptyDef)]
      [] nargs = 1 ->
            IF typeOf(base) = "function"
            THEN [err |-> NoError, base |-> base, data |-> Def(EmptyDef)]
            ELSE IF typeOf(base) = "object"
            THEN [err |-> NoError, base |-> BaseObject,
                  data |-> IF truthy(base) THEN base ELSE Def(EmptyDef)]
            ELSE [err |-> "TypeError: Invalid argument.", base |-> base,
                  data |-> data]
      [] OTHER ->
            IF FALSE
            THEN [err |-> "TypeError: Parameter 'base'", base |-> base, data |-> data]
            ELSE IF ~(truthy(data) /\ typeOf(data) = "object")
            THEN [err |-> "TypeError: Parameter 'base'", base |-> base, data |-> data]
            ELSE [err |-> NoError, base |-> base, data |-> data]

FinalError == "TypeError: Cannot extend a final class."

\* classDefs.has(base) && classDefs.get(base)[INHERITMODE] === FINAL
extendsFinal(base) ==
    /\ base.t = "class"
    /\ base.k \in DOMAIN classDefs
    /\ classDefs[base.k].inheritMode = FINAL

\* ClassicM up to the point the constructor is built: the error thrown by the
\* argument switch, by fixupData or by the final-class check.
classicMError(nargs, base, data) ==
    LET a == classicMArgs(nargs, base, data) IN
    IF a.err # NoError THEN a.err
    ELSE IF fixupData(a.data.d).err # NoError THEN fixupData(a.data.d).err
    ELSE IF extendsFinal(a.base) THEN FinalError
    ELSE NoError

\* What a call of ClassicM evaluates to when nothing is thrown: the function
\* body ends (line 632) without a return statement.
classicMReturn(newClass) == Absent

\* ------------------------------------------------ prototype generation
\* A prototype-level object: the members copied into it, those of them that
\* were wrapped by makePvtName, and the names it has an accessor pair for.
Surface(members, wrapped, accessors) ==
    [t |-> "surface", members |-> members, wrapped |-> wrapped,
     accessors |-> accessors]

\* clone(owner, dest, src, isPvt): dest afterwards, and what the call
\* evaluates to: neither branch returns a value.
clone(owner, dest, src, isPvt) ==
    [ret  |-> Absent,
     dest |-> [dest EXCEPT !.members = @ \cup getAllKeys(src),
                           !.wrapped = IF isPvt THEN @ \cup src.fns ELSE @]]

\* initProtectedPrototype(pvt, src, owner): the object of accessor pairs it
\* returns, and pvt after clone(owner, pvt, src).
initProtectedPrototype(pvt, src, owner) ==
    [ret |-> Surface({}, {}, getAllKeys(src)),
     pvt |-> clone(owner, pvt, src, FALSE).dest]

\* initPublicPrototype(pub, src, owner): the body is empty.
initPublicPrototype(pub, src, owner) == Absent

\* generatePrototypes(data, base, owner): the object returned, by region key
\* (Absent: reading the key yields undefined).  `key` still is PROTECTED when
\* the public region is handled, and is never STATIC.
generatePrototypes(data, base, owner) ==
    LET pvt0 == Surface({}, {}, {})
        r0   == [e \in {PRIVATE, PROTECTED, PUBLIC} |-> Absent]
        c    == clone(owner, pvt0, data.regs[PRIVATE], TRUE)
        r1   == IF truthy(data.regs[PRIVATE])
                THEN [r0 EXCEPT ![PRIVATE] = c.ret] ELSE r0
        pvt1 == IF truthy(data.regs[PRIVATE]) THEN c.dest ELSE pvt0
        r2   == IF truthy(data.regs[PROTECTED])
                THEN [r1 EXCEPT ![PROTECTED] =
                         initProtectedPrototype(pvt1, data.regs[PROTECTED], owner).ret]
                ELSE r1
        r3   == IF data.regs[PUBLIC] # Absent
                THEN [r2 EXCEPT ![PROTECTED] =
                         initPublicPrototype(r2[PROTECTED], data.regs[PROTECTED], owner)]
                ELSE r2
    IN r3

\* The function-valued members clone(owner, pvt, data[PRIVATE], true) wraps.
privateFns(data) ==
    LET pvt == data.regs[PRIVATE] IN
    IF truthy(pvt) /\ isObj(pvt) THEN pvt.fns ELSE {}

RECURSIVE wrapAll(_, _, _)
wrapAll(fns, naming, owner) ==
    IF fns = {} THEN <<>>
    ELSE LET f == CHOOSE x \in fns : TRUE IN
         <<[name |-> naming[f], owner |-> owner]>>
            \o wrapAll(fns \ {f}, naming, owner)

\* ClassicM(base, data) called with nargs arguments.
ClassicM(nargs, base, data) ==
    LET a   == classicMArgs(nargs, base, data)
        err == classicMError(nargs, base, data)
        k   == Len(classes) + 1
    IN
    /\ IF err # NoError
       THEN /\ UNCHANGED <<classes, wrappers>>
            /\ last' = [op |-> "ClassicM", nargs |-> nargs, base |-> base,
                        data |-> data, err |-> err, res |-> Absent,
                        built |-> 0]
       ELSE /\ Len(classes) < MaxClasses
            /\ Len(wrappers) + Cardinality(privateFns(a.data.d)) <= MaxWrappers
            \* newClass, its CLASS_ID, and generatePrototypes(data, ...)
            /\ classes' = Append(classes,
                  [base |-> IF a.base.t = "class" THEN a.base.k ELSE 0,
                   inheritMode |-> fixupData(a.data.d).inheritMode,
                   data |-> a.data.d])
            /\ \E naming \in [privateFns(a.data.d) -> makeFnName] :
                  wrappers' = wrappers \o wrapAll(privateFns(a.data.d), naming, k)
            /\ last' = [op |-> "ClassicM", nargs |-> nargs, base |-> base,
                        data |-> data, err |-> NoError,
                        res |-> classicMReturn(k), built |-> k,
                        prototypes |-> generatePrototypes(a.data.d, a.base, k)]
    /\ UNCHANGED <<stack, frames, inst, held>> /\ unchangedMaps /\ unchangedApi

NewError == "TypeError: Class constructor cannot be invoked without 'new'"

\* The constructor without its check.
rejectsCall_never(newTarget) == FALSE

\* if (!new.target) throw ...
rejectsCall(newTarget) == ~newTarget

\* newClass(...args) of class k (lines 432-443), called with `new`
\* (newTarget) or as a plain function.  After the check the body is empty:
\* the new object gets no ClassicM.CLASS property, no entry in connections
\* and no member, and no initializer is run (initCalls stays as it is).
newClass(k, newTarget) ==
    /\ IF rejectsCall(newTarget)
       THEN /\ UNCHANGED <<inst, held>>
            /\ last' = [op |-> "newClass", k |-> k, newTarget |-> newTarget,
                        err |-> NewError, pre |-> inst, calls |-> initCalls]
       ELSE /\ Len(inst) < MaxInst
            /\ inst' = Append(inst, [cls |-> k, CLASS |-> Undefined,
                                     layer |-> NoLayer, own |-> <<>>,
                                     members |-> <<>>])
            /\ held' = Append(held, 0)
            /\ last' = [op |-> "newClass", k |-> k, newTarget |-> newTarget,
                        err |-> NoError, pre |-> inst, calls |-> initCalls]
    /\ UNCHANGED classes /\ unchangedTrace /\ unchangedMaps /\ unchangedApi

\* ------------------------------------------------ placeholder registry
\* An object as init builds it and as isPlaceHolder inspects it: its
\* identity (p for the object the p-th accepted call of init returned, 0 for
\* an object built elsewhere), whether it is frozen, its own string-named
\* keys, its own symbol keys and the value it holds under PLACEHOLDER.
PLACEHOLDER   == "PLACEHOLDER"
DescriptorObj == "{value: undefined}"
ApiObj(id, frozen, names, symbols, ph) ==
    [t |-> "obj", keys |-> names \cup symbols, fns |-> {}, id |-> id,
     frozen |-> frozen, names |-> names, symbols |-> symbols, ph |-> ph]

\* Object.freeze({[PLACEHOLDER]: { value: void 0 }}) of the p-th registration.
Marker(p) == ApiObj(p, TRUE, {}, {PLACEHOLDER}, DescriptorObj)
\* An initializer function, by the value a run of it returns.
InitFn(r) == [t |-> "fn", r |-> r]

InitError == "TypeError: Init must be passed an initialization function!"

\* init without its check.
initRejects_never(fn) == FALSE

\* typeof(fn) !== "function"
initRejects(fn) == typeOf(fn) # "function"

\* initFns.has(val): the keys of the map are the objects init registered.
initFnsHas(val) ==
    /\ val.t = "obj"
    /\ "id" \in DOMAIN val
    /\ val.id \in 1..Len(initFns)

\* ClassicM.PLACEHOLDER: the static API defines no such property, the read
\* yields undefined and hasOwnProperty looks for the key "undefined".
ClassicMPLACEHOLDER == Undefined
hasOwnProperty(val, key) == key \in val.keys

\* isPlaceHolder(val) (lines 602-610): what the && chain evaluates to, "true"
\* or "false", or val itself (by its kind) when val is falsy.
isPlaceHolder(val) ==
    IF ~truthy(val) THEN val.t
    ELSE IF /\ typeOf(val) = "object"
            /\ val.frozen
            /\ Cardinality(val.names) = 0
            /\ Cardinality(val.symbols) = 1
            /\ hasOwnProperty(val, ClassicMPLACEHOLDER)
            /\ val.ph = Undefined
            /\ initFnsHas(val)
         THEN "true" ELSE "false"

\* getInitValue(placeholder) (lines 623-626): the value returned and the
\* registration whose initializer was run (0: none).
getInitValue(placeholder) ==
    IF initFnsHas(placeholder)
    THEN [res |-> initFns[placeholder.id].r, ran |-> placeholder.id]
    ELSE [res |-> Undefined, ran |-> 0]

\* ClassicM.init(fn).
init(fn) ==
    /\ IF initRejects(fn)
       THEN /\ UNCHANGED <<initFns, initCalls>>
            /\ last' = [op |-> "init", fn |-> fn, err |-> InitError,
                        res |-> Absent, pre |-> initFns]
       ELSE /\ Len(initFns) < MaxMarkers
            /\ initFns' = Append(initFns, fn)
            /\ initCalls' = Append(initCalls, 0)
            /\ last' = [op |-> "init", fn |-> fn, err |-> NoError,
                        res |-> Marker(Len(initFns) + 1), pre |-> initFns]
    /\ UNCHANGED <<TRIGGER, classes, inst, held>>
    /\ unchangedTrace /\ unchangedMaps

\* ClassicM.isPlaceHolder(val).
IsPlaceHolder(val) ==
    /\ last' = [op |-> "isPlaceHolder", val |-> val, res |-> isPlaceHolder(val)]
    /\ UNCHANGED <<classes, inst, held>>
    /\ unchangedTrace /\ unchangedMaps /\ unchangedApi

\* ClassicM.getInitValue(val).
GetInitValue(val) ==
    LET g == getInitValue(val) IN
    /\ g.ran # 0 => initCalls[g.ran] < MaxCalls
    /\ initCalls' = IF g.ran = 0 THEN initCalls
                    ELSE [initCalls EXCEPT ![g.ran] = @ + 1]
    /\ last' = [op |-> "getInitValue", val |-> val, res |-> g.res,
                pre |-> initCalls]
    /\ UNCHANGED <<initFns, TRIGGER, classes, inst, held>>
    /\ unchangedTrace /\ unchangedMaps

\* An instance's member as code outside the class reads it: instance.key.
memberValue(o, key) ==
    IF key \in DOMAIN o.members THEN o.members[key] ELSE Undefined

\* The members of a definition's instance-level regions that are assigned a
\* placeholder, as pairs <<member name, registration>>.
placeholders(data) ==
    UNION {IF isObj(data.regs[e]) /\ "inits" \in DOMAIN data.regs[e]
           THEN {<<key, data.regs[e].inits[key]>> :
                    key \in DOMAIN data.regs[e].inits}
           ELSE {} : e \in {PRIVATE, PROTECTED, PUBLIC}}

\* ------------------------------------------------ private access specifier
\* A string by its text and length.
Chars(s, len) == [t |-> IF len = 0 THEN "empty" ELSE "str", s |-> s, len |-> len]
Specifiers == {"_", "$"}
SpecifierError == "TypeError: Invalid private access specifier. Not altered."

\* The test of the setter (lines 462-463).
specifierAccepted(v) ==
    /\ typeOf(v) = "string"
    /\ v.len = 1
    /\ v.s \in Specifiers

\* ClassicM.PrivateAccessSpecifier = v.
SetPrivateAccessSpecifier(v) ==
    /\ IF specifierAccepted(v)
       THEN /\ TRIGGER' = v.s
            /\ last' = [op |-> "setSpecifier", v |-> v, err |-> NoError,
                        pre |-> TRIGGER]
       ELSE /\ UNCHANGED TRIGGER
            /\ last' = [op |-> "setSpecifier", v |-> v, err |-> SpecifierError,
                        pre |-> TRIGGER]
    /\ UNCHANGED <<initFns, initCalls, classes, inst, held>>
    /\ unchangedTrace /\ unchangedMaps

\* ClassicM.PrivateAccessSpecifier read.
GetPrivateAccessSpecifier ==
    /\ last' = [op |-> "getSpecifier", res |-> TRIGGER]
    /\ UNCHANGED <<classes, inst, held>>
    /\ unchangedTrace /\ unchangedMaps /\ unchangedApi

\* ------------------------------------------------------ the specification
\* The definitions the factory is given below.
DefFinal == RawDef("F", FINAL, Absent, Absent, Absent, Absent)
DefMembers ==
    RawDef(Undefined, Undefined, Absent, Obj({"m"}, {"m"}), Obj({"x"}, {}), Absent)
DefDuplicate ==
    RawDef(Undefined, Undefined, Absent, Obj({"x"}, {}), Absent, Obj({"x"}, {}))
DefAll ==
    RawDef(Undefined, Undefined, Absent, Obj({"m", "s"}, {"m"}), Obj({"x"}, {}),
           Obj({"p"}, {"p"}))
DataArgs == {Null, Str, Def(EmptyDef), Def(DefFinal), Def(DefDuplicate),
             Def(DefAll)}
BaseArgs == {Absent, Zero, Null, BaseObject, Def(DefFinal)}
               \cup {ClassRef(k) : k \in ClassIds}

Init ==
    /\ stack = <<>>
    /\ frames = <<>>
    /\ wrappers = <<>>
    /\ classes = <<>>
    /\ classDefs = <<>>
    /\ connections = <<>>
    /\ inst = <<>>
    /\ held = <<>>
    /\ initFns = <<>>
    /\ initCalls = <<>>
    /\ TRIGGER = Undefined
    /\ last = NoOp

\* Privileged members running, the connector and the accessors at work on
\* the instances of classes the factory built from well-formed definitions.
Next ==
    \/ \E w \in 1..Len(wrappers) : WrapperEnter(w)
    \/ WrapperReturn
    \/ WrapperThrow
    \/ \E i \in 1..Len(inst), id \in ClassIds : Connect(i, id)
    \/ \E i \in 1..Len(inst), id \in ClassIds \cup {NullId} : Disconnect(i, id)
    \/ \E i \in 1..Len(inst), key \in Keys, v \in Values :
          SetProtectedValue(i, key, v)
    \/ \E i \in 1..Len(inst), key \in Keys : GetProtectedValue(i, key)
    \/ \E base \in {BaseObject} \cup {ClassRef(k) : k \in ClassIds},
          data \in {Def(EmptyDef), Def(DefMembers)} :
          ClassicM(2, base, data)
    \/ \E k \in ClassIds : newClass(k, TRUE)

Spec == Init /\ [][Next]_vars

\* The factory and the constructors it builds, over every kind of argument.
NextFactory ==
    \/ ClassicM(0, Absent, Absent)
    \/ \E base \in BaseArgs : ClassicM(1, base, Absent)
    \/ \E base \in BaseArgs, data \in DataArgs : ClassicM(2, base, data)
    \/ \E k \in ClassIds, nt \in BOOLEAN : newClass(k, nt)

SpecFactory == Init /\ [][NextFactory]_vars

\* The static API at work: the placeholder registry and the access specifier.
InitResults == {"r1", "r2"}
InitArgs == {InitFn(r) : r \in InitResults} \cup {Absent, Null, Zero, Str, Obj({}, {})}
LookAlike == ApiObj(0, TRUE, {}, {PLACEHOLDER}, DescriptorObj)
ApiVals ==
    {Marker(p) : p \in 1..Len(initFns)}
       \cup {LookAlike, ApiObj(0, TRUE, {}, {PLACEHOLDER}, Undefined),
             ApiObj(0, FALSE, {}, {PLACEHOLDER}, DescriptorObj),
             ApiObj(0, TRUE, {"undefined"}, {PLACEHOLDER}, Undefined),
             Absent, Null, Zero, Str, InitFn("r1")}
SpecifierArgs ==
    {Chars("_", 1), Chars("$", 1), Chars("#", 1), Chars("__", 2), Chars("", 0),
     Absent, Null, Zero}
\* {[PUBLIC]: {v: <the placeholder of registration p>}}
DefInit(p) ==
    RawDef(Undefined, Undefined, Absent, Absent, Absent,
           [t |-> "obj", keys |-> {"v"}, fns |-> {}, inits |-> ("v" :> p)])

NextApi ==
    \/ \E fn \in InitArgs : init(fn)
    \/ \E val \in ApiVals : IsPlaceHolder(val)
    \/ \E val \in ApiVals : GetInitValue(val)
    \/ \E v \in SpecifierArgs : SetPrivateAccessSpecifier(v)
    \/ GetPrivateAccessSpecifier

SpecApi == Init /\ [][NextApi]_vars

\* Classes built from definitions that assign placeholders to members, and
\* their instances.
NextConstruct ==
    \/ \E fn \in InitArgs : init(fn)
    \/ \E p \in 1..Len(initFns) : ClassicM(2, BaseObject, Def(DefInit(p)))
    \/ \E k \in ClassIds : newClass(k, TRUE)

SpecConstruct == Init /\ [][NextConstruct]_vars

\* Wrappers made one by one for the members of two owners, and run.
Owners == {1, 2}
NextWrap ==
    \/ \E owner \in Owners : makePvtName(Fn, owner)
    \/ \E w \in 1..Len(wrappers) : WrapperEnter(w)
    \/ WrapperReturn
    \/ WrapperThrow

SpecWrap == Init /\ [][NextWrap]_vars

\* The normalizer applied to every raw definition of a bounded family.
MemberKeys == {"a", "b"}
RegionVals ==
    {Absent, Null, Zero, EmptyStr, Str, Fn}
       \cup {Obj(K, {}) : K \in SUBSET MemberKeys} \cup {Obj({PUBLIC}, {})}
StaticSubVals == {Absent, Null, Zero, Str, Obj({"a"}, {})}
StaticVals ==
    {Absent, Null, Zero, Str}
       \cup {StaticObj((PRIVATE :> p) @@ (PROTECTED :> q) @@ (PUBLIC :> r), x) :
               p \in StaticSubVals, q \in StaticSubVals, r \in StaticSubVals,
               x \in {{}, {"a"}}}
\* The raw definitions: every combination of a STATIC value and three region
\* values.
RawDefs(statics, regions) ==
    {RawDef(Undefined, Undefined, s, p, q, r) :
        s \in statics, p \in regions, q \in regions, r \in regions}

\* fixupData applied to the definition drawn at the start.
FixupData ==
    /\ last.op = "input"
    /\ last' = [op |-> "fixupData", data |-> last.data,
                out |-> fixupData(last.data)]
    /\ UNCHANGED <<classes, inst, held>> /\ unchangedTrace /\ unchangedMaps
    /\ unchangedApi

InitNorm ==
    /\ stack = <<>>
    /\ frames = <<>>
    /\ wrappers = <<>>
    /\ classes = <<>>
    /\ classDefs = <<>>
    /\ connections = <<>>
    /\ inst = <<>>
    /\ held = <<>>
    /\ initFns = <<>>
    /\ initCalls = <<>>
    /\ TRIGGER = Undefined
    /\ last \in {[op |-> "input", data |-> d] : d \in RawDefs(StaticVals, RegionVals)}

NextNorm == FixupData

SpecNorm == InitNorm /\ [][NextNorm]_vars

\* ------------------------------------------------------------- claims
Insts == 1..Len(inst)

\* C1: on one instance the hidden layer is in the delegation chain from the
\* outermost connect on and while a connect awaits its disconnect, and it
\* is gone once the outermost disconnect has run.
C1_LayerHeldFromOutermostConnect ==
    \A i \in Insts :
       /\ (last.op = "connect" /\ last.obj = i) => hasLayer(inst[i])
       /\ held[i] > 0 => hasLayer(inst[i])
       /\ (last.op = "disconnect" /\ last.obj = i /\ held[i] = 0)
             => ~hasLayer(inst[i])

\* C2: when an invocation of a wrapper ends, by return or by throw, the
\* call-stack trace is what it was before the invocation.
C2_TraceRestoredOnEveryExit ==
    last.op = "wrapper" => last.post = last.pre

\* C3: an instance on which no privileged call is executing (no connect
\* awaits its disconnect, also after an accessor ended by throwing) has no
\* hidden layer in its chain and exposes no private slot.
C3_NoLayerOutsidePrivilegedCalls ==
    \A i \in Insts :
       held[i] = 0 =>
          /\ ~hasLayer(inst[i])
          /\ \A id \in ClassIds : lookup(inst[i], id) = Undefined

\* An accessor ended by throwing and left the instance without a layer.
C3_Witness ==
    /\ last.op \in {"get", "set"}
    /\ last.err # NoError
    /\ held[last.obj] = 0
    /\ ~hasLayer(inst[last.obj])

\* C4: a connect by a caller that does not pass validateAccess throws the
\* inaccessibility error and leaves the instance's chain, counter and slots
\* as they were.
C4_RejectedConnectChangesNothing ==
    (last.op = "connect" /\ ~validateAccess("this", 1)) =>
       /\ last.err = Inaccessible
       /\ inst[last.obj] = last.pre

\* A member of an unrelated class attempted the connect and was rejected.
C4_Witness ==
    /\ last.op = "connect"
    /\ last.caller # 0
    /\ ~descendsFrom(last.caller, inst[last.obj].cls)
    /\ ~descendsFrom(inst[last.obj].cls, last.caller)
    /\ last.err = Inaccessible

\* The caller is a member of the instance's class or of a subclass of it.
entitled(caller, i) == caller # 0 /\ descendsFrom(caller, inst[i].cls)

\* C5: the protected getter, called by entitled code right after that code
\* called the setter with v for the same key on the same instance, returns v.
C5_SetThenGetReturnsValue ==
    (last.op = "get" /\ last.wrote # Undefined /\ entitled(last.caller, last.obj))
       => (last.err = NoError /\ last.res = last.wrote)

\* Every region of the definition is an object or absent.
wellFormed(data) ==
    \A e \in {STATIC, PRIVATE, PROTECTED, PUBLIC} :
       data.regs[e] = Absent \/ isObj(data.regs[e])
\* A member name appears in two of the instance-level regions.
duplicatedAcross(data) ==
    \E e1, e2 \in {PRIVATE, PROTECTED, PUBLIC} :
       /\ e1 # e2
       /\ getAllKeys(data.regs[e1]) \cap getAllKeys(data.regs[e2]) # {}
\* A member name appears in two of the regions inside STATIC.
duplicatedInStatic(data) ==
    /\ data.regs[STATIC].t = "sobj"
    /\ \E e1, e2 \in {PRIVATE, PROTECTED, PUBLIC} :
          /\ e1 # e2
          /\ getAllKeys(data.regs[STATIC].sub[e1])
                \cap getAllKeys(data.regs[STATIC].sub[e2]) # {}
DuplicateError == "SyntaxError: duplicate key name"

\* C7: a definition with a member name in two of PRIVATE, PROTECTED and
\* PUBLIC is rejected with the duplicate-name error, and one whose member
\* names are pairwise distinct across them is not (the definitions looked at
\* have no other defect: no malformed region, no repeat inside STATIC).
C7_DuplicateIffRepeatedAcrossRegions ==
    (last.op = "fixupData" /\ wellFormed(last.data)
        /\ ~duplicatedInStatic(last.data)) =>
       (last.out.err = DuplicateError <=> duplicatedAcross(last.data))

\* C8: a factory call whose base is a class built with inheritance mode
\* FINAL throws the inheritance error and builds no class.
C8_FinalBaseRejected ==
    (last.op = "ClassicM" /\ last.nargs = 2 /\ last.base.t = "class"
        /\ classes[last.base.k].inheritMode = FINAL
        /\ last.data.t = "def" /\ fixupData(last.data.d).err = NoError)
       => (last.err = FinalError /\ last.built = 0)

\* C9: a factory call that is given valid arguments returns the constructor
\* it built.
C9_FactoryReturnsConstructor ==
    (last.op = "ClassicM" /\ last.err = NoError)
       => (last.built # 0 /\ last.res = ClassRef(last.built))

\* C10: a constructor called without `new` throws the invocation error and
\* no instance comes into being.
C10_PlainCallRejected ==
    (last.op = "newClass" /\ ~last.newTarget) =>
       (last.err = NewError /\ inst = last.pre)

\* A constructor was called as a plain function.
C10_Witness ==
    /\ last.op = "newClass"
    /\ ~last.newTarget
    /\ last.err = NewError
    /\ last.k \in ClassIds

\* The values under the region keys of a definition: at instance level and
\* inside its STATIC object.
InstanceRegions == {STATIC, PRIVATE, PROTECTED, PUBLIC}
MemberRegions   == {PRIVATE, PROTECTED, PUBLIC}
staticSub(data, e) ==
    IF data.regs[STATIC].t = "sobj" THEN data.regs[STATIC].sub[e] ELSE Absent
regionValues(data) ==
    {data.regs[e] : e \in InstanceRegions} \cup {staticSub(data, e) : e \in MemberRegions}
\* Present, and neither null nor an object.
malformed(v) == v.t \notin {"absent", "null", "obj", "sobj"}
\* No key is repeated between two values of one level.
noRepeats(data) ==
    /\ \A e1, e2 \in InstanceRegions :
          e1 # e2 => getAllKeys(data.regs[e1]) \cap getAllKeys(data.regs[e2]) = {}
    /\ \A e1, e2 \in MemberRegions :
          e1 # e2 => getAllKeys(staticSub(data, e1)) \cap getAllKeys(staticSub(data, e2)) = {}
shapeError(err) ==
    \E e \in InstanceRegions :
       err \in {"TypeError: data." \o e, "TypeError: data[ClassicM.STATIC]." \o e}

\* C14: a definition in which a present region, at instance level or inside
\* STATIC, is neither null nor an object (0 and "" included) is rejected with
\* the shape error, and a region that is null is accepted (the definitions
\* looked at have no other defect: no repeated key, and for the first part
\* no null region).
C14_ShapeErrorForNonObjectRegion ==
    (last.op = "fixupData" /\ noRepeats(last.data)) =>
       /\ ((\E v \in regionValues(last.data) : malformed(v))
              /\ Null \notin regionValues(last.data))
             => shapeError(last.out.err)
       /\ (Null \in regionValues(last.data)
              /\ \A v \in regionValues(last.data) : ~malformed(v))
             => last.out.err = NoError

\* Every region, at instance level and inside STATIC, is an object or
\* absent, and the STATIC object has no key besides region keys.
wellFormedLevels(data) ==
    /\ \A v \in regionValues(data) : v = Absent \/ isObj(v)
    /\ isObj(data.regs[STATIC]) => data.regs[STATIC].keys \subseteq MemberRegions
\* A member name of an instance-level region is also one of a static region.
sharedWithStatic(data) ==
    \E e1, e2 \in MemberRegions :
       getAllKeys(data.regs[e1]) \cap getAllKeys(staticSub(data, e2)) # {}
\* An instance-level member is named like a region key the STATIC object has.
namedLikeStaticRegion(data) ==
    \E e \in MemberRegions :
       getAllKeys(data.regs[e]) \cap getAllKeys(data.regs[STATIC]) # {}

\* C15: among definitions whose regions are objects: a member name that is
\* in one instance-level region and in one static region is accepted; a
\* member name in two static regions is rejected with the duplicate-name
\* error; and the region keys of the STATIC object never make an
\* instance-level member a duplicate.
C15_StaticDuplicatesScopedSeparately ==
    (last.op = "fixupData" /\ wellFormedLevels(last.data)
        /\ ~duplicatedAcross(last.data)) =>
       /\ (sharedWithStatic(last.data) /\ ~duplicatedInStatic(last.data)
              /\ ~namedLikeStaticRegion(last.data))
             => last.out.err = NoError
       /\ (duplicatedInStatic(last.data) /\ ~namedLikeStaticRegion(last.data))
             => last.out.err = DuplicateError
       /\ ~duplicatedInStatic(last.data) => last.out.err # DuplicateError

\* C16: for a definition with PRIVATE, PROTECTED and PUBLIC regions the
\* factory's generatePrototypes returns three distinct surfaces: the private
\* one holds every private member with its functions wrapped, the protected
\* one has an accessor pair for every protected member name, the public one
\* holds every public member unwrapped; the protected surface is still there
\* after the public one was generated.
C16_ThreeSurfacesGenerated ==
    (last.op = "ClassicM" /\ last.err = NoError /\ last.data.t = "def"
        /\ \A e \in MemberRegions : isObj(last.data.d.regs[e])) =>
       LET regs == last.data.d.regs
           p    == last.prototypes
       IN /\ p[PRIVATE] = Surface(regs[PRIVATE].keys, regs[PRIVATE].fns, {})
          /\ p[PROTECTED] = Surface({}, {}, regs[PROTECTED].keys)
          /\ p[PUBLIC] = Surface(regs[PUBLIC].keys, {}, {})

\* C18: the first connect on a detached instance installs the hidden layer
\* with counter 1 and the slot of the requested class id; a later connect for
\* a class id whose slot is not connected adds that slot and raises the
\* counter by exactly 1 (the caller is a member of the instance's class or of
\* a subclass).
C18_ConnectInstallsLayerAndCounts ==
    (last.op = "connect" /\ entitled(last.caller, last.obj)) =>
       LET o == inst[last.obj] IN
       /\ ~hasLayer(last.pre) =>
             /\ last.err = NoError
             /\ hasLayer(o)
             /\ o.layer.count = 1
             /\ last.id \in DOMAIN o.layer.slots
       /\ (hasLayer(last.pre) /\ jsTypeof(lookup(last.pre, last.id)) # "object") =>
             /\ last.err = NoError
             /\ hasLayer(o)
             /\ o.layer.count = last.pre.layer.count + 1
             /\ jsTypeof(lookup(o, last.id)) = "object"

ParameterError == "TypeError: Parameter 'base'"

\* C20: a factory call with two arguments throws the parameter TypeError
\* when base is not a function (and is given) and when data is not a
\* non-null object, and gets past the argument check when base is a function
\* and data is an object.
C20_TwoArgumentsChecked ==
    (last.op = "ClassicM" /\ last.nargs = 2) =>
       /\ last.base.t \notin {"fn", "class", "absent"} => last.err = ParameterError
       /\ last.data.t # "def" => last.err = ParameterError
       /\ (last.base.t \in {"fn", "class"} /\ last.data.t = "def")
             => last.err # ParameterError

\* C21: the PRIVATE, PROTECTED and PUBLIC entries of the normalized
\* definition fixupData returns are the raw definition's own instance-level
\* regions, also when STATIC holds regions under the same keys, and the
\* regions inside STATIC stay under the normalized STATIC entry (the
\* definitions looked at are accepted and have objects for regions).
C21_InstanceRegionsKept ==
    (last.op = "fixupData" /\ last.out.err = NoError
        /\ wellFormedLevels(last.data)) =>
       /\ \A e \in MemberRegions : last.out.regs[e] = last.data.regs[e]
       /\ \A e \in MemberRegions :
             staticSub(last.data, e) # Absent =>
                last.out.regs[STATIC].sub[e] = staticSub(last.data, e)

\* A value the registry handed out: the object an accepted call of init
\* returned.
returnedByInit(val) == \E p \in 1..Len(initFns) : val = Marker(p)

\* C11: constructing an instance of a class whose definition assigns a
\* placeholder to a member runs that placeholder's initializer exactly once,
\* and the member of the returned instance holds the initializer's result.
C11_PlaceholdersResolvedOnConstruction ==
    (last.op = "newClass" /\ last.err = NoError) =>
       \A kp \in placeholders(classes[last.k].data) :
          /\ initCalls[kp[2]] = last.calls[kp[2]] + 1
          /\ memberValue(inst[Len(inst)], kp[1]) = initFns[kp[2]].r

\* C12: isPlaceHolder is true of every object init returned and is not true
\* of any other value, a frozen object of the same shape included.
C12_IsPlaceHolderExactlyForMarkers ==
    last.op = "isPlaceHolder" =>
       (last.res = "true" <=> returnedByInit(last.val))

C17_SpecifierIsUnderscoreOrDollar ==
    last.op = "setSpecifier" =>
       /\ TRIGGER \in Specifiers
       /\ (last.v.t # "str" \/ last.v.s \notin Specifiers) =>
             (last.err = SpecifierError /\ TRIGGER = last.pre)

\* C22: no two wrappers made by makePvtName have the same identity name:
\* the name of each new wrapper differs from the name of every wrapper made
\* before it.
C22_WrapperNamesNeverCollide ==
    \A i, j \in 1..Len(wrappers) :
       i # j => wrappers[i].name # wrappers[j].name

=============================================================================
